---- MODULE Spec2Model ----
(***************************************************************************)
(* Kinnect backend: activity logging, scoring and streak accrual.          *)
(*                                                                         *)
(* Units.  Calendar dates are day numbers (an ISO date string compares     *)
(* and sorts like its day number).  Distances are whole metres             *)
(* (distanceKm = distM / 1000) and durations whole seconds                 *)
(* (durationMinutes = durS / 60), so that the fractional thresholds of the *)
(* source (0.01 km, 0.5 km/h, 5 % tolerance) are exact integer tests.      *)
(* SQL NULL / JavaScript null is Null.                                     *)
(***************************************************************************)
EXTENDS Integers, Sequences, FiniteSets, TLC

\* ---- bounds of the model ----
MaxDay == 2
MaxRequests == 2
MaxFaults == 1
MaxBatch == 2

Null == -1
Days == 0 .. MaxDay
Handlers == {1, 2}

\* Math.round(p / q) for q > 0: round half towards +infinity
Round(p, q) == (2 * p + q) \div (2 * q)

Max(a, b) == IF a >= b THEN a ELSE b

\* ---- scoring (server, database mode) ----
weightKg == 70

calculateCalories(type, distM, durS) ==
  CASE type = "run" -> Round(weightKg * distM, 1000)
    [] type = "walk" -> Round(weightKg * distM, 2000)
    [] type = "workout" -> Round(6 * weightKg * durS, 3600)
    [] OTHER -> Round(5 * weightKg * durS, 3600)

\* a variant without the floor of one point
calculatePointsNoFloor(type, distM, durS) ==
  Round(calculateCalories(type, distM, durS), 10)

calculatePoints(type, distM, durS) ==
  Max(1, Round(calculateCalories(type, distM, durS), 10))

\* ---- scoring (legacy in-memory server) ----
legacyCalculatePoints(type, distM, durS) ==
  CASE type = "run" -> (distM * 10) \div 1000
    [] type = "walk" -> (distM * 5) \div 1000
    [] type = "workout" -> durS \div 60
    [] OTHER -> 10

\* a variant that tests for yesterday before the same day
NewStreakYesterdayFirst(p, date, yesterday) ==
  IF p.last = yesterday THEN p.streak + 1
  ELSE IF p.last = date THEN p.streak
  ELSE 1

\* ---- streak transition of POST /activities (database mode) ----
\* yesterday is the day before the request is handled
NewStreak(p, date, yesterday) ==
  IF p.last = date THEN p.streak
  ELSE IF p.last = yesterday THEN p.streak + 1
  ELSE 1

\* the profile row written by POST /activities
AdvanceProfile(p, pts, date, yesterday) ==
  [exists |-> TRUE, points |-> p.points + pts,
   streak |-> NewStreak(p, date, yesterday), last |-> date]

\* ---- updateUserProgress (in-memory user record) ----
updateUserProgress(user, activityPoints, date, yesterday) ==
  [points |-> user.points + activityPoints,
   streak |-> IF user.lastActivityDate = date THEN user.streak
              ELSE IF user.lastActivityDate = yesterday THEN user.streak + 1
              ELSE 1,
   lastActivityDate |-> date]

\* ---- quality control: validateActivity ----
\* QC_RULES, in metres, seconds and km/h; a type without an entry looks up undefined
Undefined == Null - 1
durationMin == 1
durationMax == 1440
\* a variant of the type caps in which a run may last ten hours
durationActivityMaxLong(t) ==
  CASE t = "run" -> 600 [] t = "walk" -> 600 [] t = "workout" -> 180
    [] t = "bike" -> 600 [] t = "swim" -> 240 [] OTHER -> Undefined
durationActivityMax(t) ==
  CASE t = "run" -> 480 [] t = "walk" -> 600 [] t = "workout" -> 180
    [] t = "bike" -> 600 [] t = "swim" -> 240 [] OTHER -> Undefined
distanceMinM == 10
\* a variant of the type caps in which a run may be 150 km long
distanceActivityMaxLong(t) ==
  CASE t = "run" -> 150 [] t = "walk" -> 80 [] t = "workout" -> 0
    [] t = "bike" -> 500 [] t = "swim" -> 50 [] OTHER -> Undefined
distanceMax == 500
distanceActivityMax(t) ==
  CASE t = "run" -> 100 [] t = "walk" -> 80 [] t = "workout" -> 0
    [] t = "bike" -> 500 [] t = "swim" -> 50 [] OTHER -> Undefined
\* a variant of the speed limits in which a run is capped at 20 km/h
speedMaxSlow(t) ==
  CASE t = "run" -> 20 [] t = "walk" -> 8 [] t = "workout" -> 0
    [] t = "bike" -> 60 [] t = "swim" -> 10 [] OTHER -> Undefined
\* a variant of the speed limits in which a walk is capped at 6 km/h
speedMaxWalk(t) ==
  CASE t = "run" -> 25 [] t = "walk" -> 6 [] t = "workout" -> 0
    [] t = "bike" -> 60 [] t = "swim" -> 10 [] OTHER -> Undefined
speedMax(t) ==
  CASE t = "run" -> 25 [] t = "walk" -> 8 [] t = "workout" -> 0
    [] t = "bike" -> 60 [] t = "swim" -> 10 [] OTHER -> Undefined
paceMax(t) ==
  CASE t = "run" -> 20 [] t = "walk" -> 30 [] OTHER -> Undefined

validTypes == {"run", "walk", "workout", "bike", "swim", "hike", "yoga", "other"}

\* String.prototype.toLowerCase on the type strings of the model
toLowerCase(t) ==
  CASE t = "Run" -> "run" [] t = "Walk" -> "walk" [] t = "WORKOUT" -> "workout"
    [] OTHER -> t

\* JavaScript truthiness of a looked-up limit: undefined and 0 are falsy
Truthy(x) == x # Undefined /\ x # 0

\* a date string that new Date() cannot parse
BadDate == Null - 2
\* setFullYear(year - 1): one year back
YearDays == 365

Opt(c, x) == IF c THEN <<x>> ELSE <<>>

\* a message: its wording, and the type and the limit it names (if any)
Message(text, type, value) == [text |-> text, type |-> type, value |-> value]
Plain(text) == Message(text, "", 0)

\* a variant of the date rule that lets a future date pass
dateErrorsLenient(date, today) ==
  IF date = Null THEN <<>>
  ELSE IF date = BadDate THEN <<Plain("invalid date")>>
  ELSE <<>>

\* the errors of the date rule: if (date) { ... }
dateErrors(date, today) ==
  IF date = Null THEN <<>>
  ELSE IF date = BadDate THEN <<Plain("invalid date")>>
  ELSE IF date > today THEN <<Plain("future date")>>
  ELSE <<>>

\* type "" is a missing type, date Null a missing date; today is the day of new Date()
\* speedKmh = (distanceKm / durationMinutes) * 60 = 36 distM / (10 durS)
\* paceMinPerKm = durationMinutes / distanceKm = 1000 durS / (60 distM)
\* the errors pushed after the type is known to be present
errors(type, distM, durS, date, today) ==
  LET activityType == toLowerCase(type)
      both == distM > 0 /\ durS > 0
      maxDur == durationActivityMax(activityType)
      maxDist == distanceActivityMax(activityType)
      maxSpeed == speedMax(activityType)
  IN Opt(activityType \notin validTypes, Message("invalid type", type, 0))
     \o dateErrors(date, today)
     \o (IF durS < 0 THEN <<Plain("negative duration")>>
         ELSE IF durS = 0 /\ distM = 0 THEN <<Plain("duration or distance required")>>
         ELSE IF durS < durationMin * 60 THEN <<Message("duration below minimum", "", durationMin)>>
         ELSE IF durS > durationMax * 60 THEN <<Message("duration above maximum", "", durationMax)>>
         ELSE <<>>)
     \o Opt(Truthy(maxDur) /\ durS > maxDur * 60,
            Message("duration above type maximum", activityType, maxDur))
     \o (IF distM < 0 THEN <<Plain("negative distance")>>
         ELSE IF distM > 0 /\ distM < distanceMinM THEN <<>>
         ELSE IF distM > distanceMax * 1000 THEN <<Message("distance above maximum", "", distanceMax)>>
         ELSE <<>>)
     \o Opt(Truthy(maxDist) /\ distM > maxDist * 1000,
            Message("distance above type maximum", activityType, maxDist))
     \o Opt(both /\ Truthy(maxSpeed) /\ 36 * distM > maxSpeed * 10 * durS,
            Message("speed above type maximum", activityType, maxSpeed))

\* the warnings pushed after the type is known to be present
warnings(type, distM, durS, date, today) ==
  LET activityType == toLowerCase(type)
      both == distM > 0 /\ durS > 0
  IN Opt(date # Null /\ date # BadDate /\ date <= today /\ date + YearDays <= today,
         Plain("more than one year ago"))
     \o Opt(distM > 0 /\ distM < distanceMinM, Plain("very small distance"))
     \o Opt(both /\ 2 * 36 * distM < 10 * durS, Plain("very slow speed"))
     \o Opt(both /\ activityType \in {"run", "walk"}
                 /\ 1000 * durS > paceMax(activityType) * 60 * distM, Plain("very slow pace"))
     \o Opt(both /\ activityType = "workout", Plain("workout with distance"))
     \o Opt(both /\ activityType = "run" /\ 36 * distM > 20 * 10 * durS
                 /\ distM > 10 * 1000, Plain("fast pace for a long distance"))
     \o Opt(both /\ activityType = "walk" /\ 36 * distM > 6 * 10 * durS,
            Plain("speed suggests running"))
     \o Opt(distM > 0 /\ durS = 0, Plain("distance without duration"))
     \o Opt(durS > 0 /\ distM = 0 /\ activityType \in {"run", "walk", "bike"},
            Plain("duration without distance"))

\* a variant in which a warning, too, makes the candidate invalid
validateActivityStrict(type, distM, durS, date, today) ==
  [valid |-> type # "" /\ errors(type, distM, durS, date, today) = <<>>
                      /\ warnings(type, distM, durS, date, today) = <<>>,
   errors |-> IF type = "" THEN <<Plain("type required")>>
              ELSE errors(type, distM, durS, date, today),
   warnings |-> IF type = "" THEN <<>> ELSE warnings(type, distM, durS, date, today),
   speedKmh |-> <<>>, paceMinPerKm |-> <<>>]

\* a variant that goes on to the other rules when the type is missing
validateActivityNoReturn(type, distM, durS, date, today) ==
  [valid |-> FALSE,
   errors |-> <<Plain("type required")>> \o errors(type, distM, durS, date, today),
   warnings |-> warnings(type, distM, durS, date, today),
   speedKmh |-> <<>>, paceMinPerKm |-> <<>>]

\* a variant that returns the metrics whenever the distance is positive
validateActivityMetrics(type, distM, durS, date, today) ==
  [valid |-> type # "" /\ errors(type, distM, durS, date, today) = <<>>,
   errors |-> IF type = "" THEN <<Plain("type required")>>
              ELSE errors(type, distM, durS, date, today),
   warnings |-> IF type = "" THEN <<>> ELSE warnings(type, distM, durS, date, today),
   speedKmh |-> IF distM > 0 THEN <<36 * distM, 10 * durS>> ELSE <<>>,
   paceMinPerKm |-> IF distM > 0 THEN <<1000 * durS, 60 * distM>> ELSE <<>>]

validateActivity(type, distM, durS, date, today) ==
  IF type = ""
  THEN [valid |-> FALSE, errors |-> <<Plain("type required")>>, warnings |-> <<>>,
        speedKmh |-> <<>>, paceMinPerKm |-> <<>>]
  ELSE
    LET both == distM > 0 /\ durS > 0
    IN [valid |-> errors(type, distM, durS, date, today) = <<>>,
        errors |-> errors(type, distM, durS, date, today),
        warnings |-> warnings(type, distM, durS, date, today),
        speedKmh |-> IF both THEN <<36 * distM, 10 * durS>> ELSE <<>>,
        paceMinPerKm |-> IF both THEN <<1000 * durS, 60 * distM>> ELSE <<>>]

\* ---- state ----
VARIABLES
  now,           \* the server's current day (Date.now())
  profile,       \* the user's row of table profiles
  dbActivities,  \* the user's rows of table activities, in insertion order
  activities,    \* the server's in-memory activities array
  users,         \* the in-memory user record of the legacy server
  h,             \* per request handler: its position and locals
  started,       \* requests accepted so far
  faults,        \* storage calls that failed so far
  base,          \* the profile row when the current busy period began
  batch,         \* the profile writes applied in the current busy period
  ev,            \* what the last step did
  clock,         \* Date.now() of the OAuth handlers, in units of five minutes
  oauthStates,   \* the in-memory Map oauthStates, as its entries (state, timestamp)
  issued,        \* the states generateState has returned so far
  callbacks,     \* the requests GET /api/strava/callback has received, in order
  friend_requests, \* the rows of table friend_requests: the row's index is its id
  friendships    \* the rows of table friendships, as pairs <<user1_id, user2_id>>

strava == <<clock, oauthStates, issued, callbacks>>
friends == <<friend_requests, friendships>>
vars == <<now, profile, dbActivities, activities, users, h, started, faults, base, batch, ev,
          strava, friends>>

\* a fresh server and empty friend tables
InitServer ==
  /\ clock = 0
  /\ oauthStates = {}
  /\ issued = 0
  /\ callbacks = << >>
  /\ friend_requests = << >>
  /\ friendships = {}

\* table profiles: points and streak default to 0, last_activity_date to NULL
NoProfile == [exists |-> FALSE, points |-> 0, streak |-> 0, last |-> Null]
NewProfile == [exists |-> TRUE, points |-> 0, streak |-> 0, last |-> Null]

\* POST /signup of the legacy server
NewUser == [points |-> 0, streak |-> 0, lastActivityDate |-> Null]

\* CHECK (type IN ('run', 'walk', 'workout')) of table activities
DbTypes == {"run", "walk", "workout"}

\* request bodies of POST /activities
\* (type, distance, duration): a run, an empty run, a workout and a type that
\* table activities refuses
ManualBodies ==
  { <<"run", 5000, 1800>>, <<"run", 0, 0>>, <<"workout", 0, 1800>>, <<"yoga", 0, 1800>> }

\* what the Strava API returns for the athlete: id, type, distance in metres,
\* moving_time in seconds and the day of start_date_local
StravaActivities ==
  { [id |-> 1, type |-> "Run", distance |-> 5000, moving_time |-> 1800, date |-> 1],
    [id |-> 2, type |-> "Run", distance |-> 5260, moving_time |-> 1790, date |-> 1],
    [id |-> 3, type |-> "Ride", distance |-> 20000, moving_time |-> 3600, date |-> 2] }

NoItem == [id |-> Null, type |-> "", distance |-> 0, moving_time |-> 0, date |-> Null]

IdleHandler ==
  [pc |-> "idle", type |-> "", dist |-> 0, dur |-> 0, date |-> Null, pts |-> 0,
   errs |-> 0, upd |-> NoProfile, yest |-> Null,
   list |-> <<>>, todo |-> <<>>, imported |-> <<>>, skipped |-> 0,
   rows0 |-> <<>>, prof0 |-> NoProfile,
   page |-> 1, hasMore |-> TRUE, pages |-> <<>>, requests |-> 0,
   user |-> 0, receiver |-> 0, req |-> 0, action |-> ""]

NoEvent ==
  [op |-> "none", r |-> 0, date |-> Null, pts |-> 0, prev |-> NoProfile, yest |-> Null,
   errors |-> 0, done |-> FALSE, stored |-> FALSE, advanced |-> FALSE,
   item |-> NoItem, rows |-> <<>>, imp |-> <<>>, list |-> <<>>, prof0 |-> NoProfile,
   skip |-> 0, failed |-> FALSE, body |-> <<>>, calories |-> 0, before |-> Null,
   len |-> 0, pages |-> <<>>, requests |-> 0, total |-> 0,
   cand |-> [type |-> "", dist |-> 0, dur |-> 0, date |-> Null],
   res |-> [valid |-> FALSE, errors |-> <<>>, warnings |-> <<>>,
            speedKmh |-> <<>>, paceMinPerKm |-> <<>>]]

AllIdle == \A r \in Handlers : h[r].pc = "idle"

Init ==
  /\ now \in 1 .. MaxDay
  /\ profile \in {NoProfile, NewProfile}
  /\ dbActivities = <<>>
  /\ activities = <<>>
  /\ users = NewUser
  /\ h = [r \in Handlers |-> IdleHandler]
  /\ started = 0
  /\ faults = 0
  /\ base = profile
  /\ batch = <<>>
  /\ ev = NoEvent
  /\ InitServer

\* midnight passes
Tick ==
  /\ now < MaxDay
  /\ now' = now + 1
  /\ ev' = NoEvent
  /\ UNCHANGED <<strava, friends>>
  /\ UNCHANGED <<profile, dbActivities, activities, users, h, started, faults, base, batch>>

\* the busy period: it begins when a request arrives while no other is being handled
Begin ==
  IF AllIdle THEN base' = profile /\ batch' = <<>> ELSE UNCHANGED <<base, batch>>

Row(type, distM, durS, date, pts, sid) ==
  [type |-> type, dist |-> distM, dur |-> durS, date |-> date, pts |-> pts, sid |-> sid]

\* ---- POST /activities, database mode ----
\* the request arrives, is scored and inserted into table activities; a failed
\* insert falls back to the in-memory array and returns
LogInsert(r) ==
  /\ h[r].pc = "idle"
  /\ started < MaxRequests
  /\ \E body \in ManualBodies, date \in Days, ok \in BOOLEAN :
       LET type == body[1]
           distM == body[2]
           durS == body[3]
           pts == calculatePoints(type, distM, durS)
           row == Row(type, distM, durS, date, pts, Null)
           errs == Len(validateActivity(type, distM, durS, date, now).errors)
       IN /\ ok \/ faults < MaxFaults
          /\ faults' = IF ok THEN faults ELSE faults + 1
          /\ IF ok /\ type \in DbTypes
             THEN /\ dbActivities' = Append(dbActivities, row)
                  /\ UNCHANGED activities
                  /\ h' = [h EXCEPT ![r] = [IdleHandler EXCEPT
                             !.pc = "inserted", !.type = type, !.dist = distM,
                             !.dur = durS, !.date = date, !.pts = pts, !.errs = errs]]
                  /\ ev' = [NoEvent EXCEPT !.op = "insert", !.r = r, !.date = date,
                             !.pts = pts, !.errors = errs, !.stored = TRUE]
             ELSE /\ activities' = Append(activities, row)
                  /\ UNCHANGED <<dbActivities, h>>
                  /\ ev' = [NoEvent EXCEPT !.op = "fallback", !.r = r, !.date = date,
                             !.pts = pts, !.errors = errs, !.done = TRUE]
  /\ started' = started + 1
  /\ Begin
  /\ UNCHANGED <<strava, friends>>
  /\ UNCHANGED <<now, profile, users>>

\* the profile row is selected; without a row the handler responds, with one it
\* computes the update from the row it read and from yesterday's date
LogReadProfile(r) ==
  /\ h[r].pc = "inserted"
  /\ \E ok \in BOOLEAN :
       /\ ok \/ (faults < MaxFaults /\ profile.exists)
       /\ faults' = IF ok THEN faults ELSE faults + 1
       /\ IF ok /\ profile.exists
          THEN /\ h' = [h EXCEPT ![r].pc = "read", ![r].yest = now - 1,
                          ![r].upd = AdvanceProfile(profile, h[r].pts, h[r].date, now - 1)]
               /\ ev' = [NoEvent EXCEPT !.op = "read", !.r = r]
          ELSE /\ h' = [h EXCEPT ![r] = IdleHandler]
               /\ ev' = [NoEvent EXCEPT !.op = "respond", !.r = r, !.date = h[r].date,
                          !.pts = h[r].pts, !.prev = profile, !.errors = h[r].errs,
                          !.done = TRUE, !.stored = TRUE]
  /\ UNCHANGED <<strava, friends>>
  /\ UNCHANGED <<now, profile, dbActivities, activities, users, started, base, batch>>

\* the update of the profile row is applied, or fails unnoticed; the handler responds
LogWriteProfile(r) ==
  /\ h[r].pc = "read"
  /\ \E ok \in BOOLEAN :
       /\ ok \/ faults < MaxFaults
       /\ faults' = IF ok THEN faults ELSE faults + 1
       /\ profile' = IF ok THEN h[r].upd ELSE profile
       /\ batch' = IF ok
                   THEN Append(batch, [kind |-> "log", pts |-> h[r].pts,
                                       date |-> h[r].date, yest |-> h[r].yest])
                   ELSE batch
       /\ ev' = [NoEvent EXCEPT !.op = IF ok THEN "advance" ELSE "respond", !.r = r,
                  !.date = h[r].date, !.pts = h[r].pts, !.prev = profile,
                  !.yest = h[r].yest, !.errors = h[r].errs, !.done = TRUE,
                  !.stored = TRUE, !.advanced = ok]
  /\ h' = [h EXCEPT ![r] = IdleHandler]
  /\ UNCHANGED <<strava, friends>>
  /\ UNCHANGED <<now, dbActivities, activities, users, started, base>>

\* ---- POST /activities, legacy in-memory server ----
LegacyPostActivities ==
  /\ started < MaxRequests
  /\ \E body \in ManualBodies, date \in Days :
       LET type == body[1]
           distM == body[2]
           durS == body[3]
           pts == legacyCalculatePoints(type, distM, durS)
       IN /\ activities' = Append(activities, Row(type, distM, durS, date, pts, Null))
          /\ users' = updateUserProgress(users, pts, date, now - 1)
          /\ ev' = [NoEvent EXCEPT !.op = "advance", !.date = date, !.pts = pts,
                     !.errors = Len(validateActivity(type, distM, durS, date, now).errors),
                     !.prev = [exists |-> TRUE, points |-> users.points,
                               streak |-> users.streak, last |-> users.lastActivityDate],
                     !.yest = now - 1, !.done = TRUE, !.stored = TRUE, !.advanced = TRUE]
  /\ started' = started + 1
  /\ UNCHANGED <<strava, friends>>
  /\ UNCHANGED <<now, profile, dbActivities, h, faults, base, batch>>

\* ---- validateActivity applied to a candidate ----
\* the candidates: types present in and absent from QC_RULES, in either case,
\* unknown and missing; distances (metres) and durations (seconds) on both sides
\* of every threshold of QC_RULES; dates missing, unparsable, past and future
CandTypes ==
  {"", "run", "walk", "workout", "bike", "swim", "hike", "yoga", "other", "Run", "dance"}
CandDist ==
  {-1000, 0, 5, 10, 499, 500, 1000, 3000, 6000, 6001, 8000, 8001, 10000, 10001,
   5000, 20000, 20001, 25000, 25001, 50000, 50001, 60000, 60001, 80000, 80001,
   100000, 100001, 150000, 500000, 500001}
CandDur ==
  {-60, 0, 30, 59, 60, 1200, 1201, 1800, 1801, 2400, 3600, 10800, 10801, 14400, 14401,
   28800, 28801, 36000, 36001, 86400, 86401}
CandDates == {Null, BadDate} \cup Days

Candidates ==
  [type : CandTypes, dist : CandDist, dur : CandDur, date : CandDates]

\* the function is applied to the candidate at hand, on the current day
Validate ==
  /\ ev' = [ev EXCEPT !.op = "validate",
               !.res = validateActivity(ev.cand.type, ev.cand.dist, ev.cand.dur,
                                        ev.cand.date, now)]
  /\ UNCHANGED <<strava, friends>>
  /\ UNCHANGED <<now, profile, dbActivities, activities, users, h, started, faults,
                 base, batch>>

\* ---- calculateCalories and calculatePoints applied to a candidate ----
\* the call returns the points; before is what the previous call returned
Score ==
  /\ started < MaxRequests
  /\ started' = started + 1
  /\ ev' = [ev EXCEPT !.op = "score",
               !.calories = calculateCalories(ev.cand.type, ev.cand.dist, ev.cand.dur),
               !.pts = calculatePoints(ev.cand.type, ev.cand.dist, ev.cand.dur),
               !.before = IF ev.op = "score" THEN ev.pts ELSE Null]
  /\ UNCHANGED <<strava, friends>>
  /\ UNCHANGED <<now, profile, dbActivities, activities, users, h, faults, base, batch>>

\* ---- POST /api/profiles/upsert ----
\* the points and streak fields of the request body: absent, or a number
UpsertPoints == {Undefined, 5}
UpsertStreak == {Undefined, 3}

\* the row the handler upserts: points and streak from the body, 0 when absent;
\* last_activity_date is not part of the row and keeps its stored value
profileRow(p, points, streak) ==
  [exists |-> TRUE,
   points |-> IF points # Undefined THEN points ELSE 0,
   streak |-> IF streak # Undefined THEN streak ELSE 0,
   last |-> p.last]

ProfileUpsert ==
  /\ started < MaxRequests
  /\ \E points \in UpsertPoints, streak \in UpsertStreak, ok \in BOOLEAN :
       /\ ok \/ faults < MaxFaults
       /\ faults' = IF ok THEN faults ELSE faults + 1
       /\ profile' = IF ok THEN profileRow(profile, points, streak) ELSE profile
       /\ ev' = [NoEvent EXCEPT !.op = "upsert", !.prev = profile, !.done = TRUE,
                  !.body = <<points, streak>>, !.failed = ~ok]
  /\ started' = started + 1
  /\ UNCHANGED <<strava, friends>>
  /\ UNCHANGED <<now, dbActivities, activities, users, h, base, batch>>

\* ---- POST /api/activities/import-strava ----
\* a variant of the type mapping that keeps rides apart
ActivityTypeRide(stravaType) ==
  IF stravaType \in {"Run", "TrailRun"} THEN "run"
  ELSE IF stravaType \in {"Walk", "Hike"} THEN "walk"
  ELSE IF stravaType \in {"Ride", "EBikeRide"} THEN "ride"
  ELSE "workout"

\* the Strava type as a type of table activities
ActivityType(stravaType) ==
  IF stravaType \in {"Run", "TrailRun"} THEN "run"
  ELSE IF stravaType \in {"Walk", "Hike"} THEN "walk"
  ELSE "workout"

\* durationMinutes = Math.round(moving_time / 60), kept in seconds
ItemDur(item) == Round(item.moving_time, 60) * 60

\* select ... eq('strava_activity_id', id) limit 1: some row has this Strava id
ExistsByStravaId(rows, item) ==
  \E i \in 1 .. Len(rows) : rows[i].sid = item.id

\* a variant that matches the distance exactly, without the 5 % tolerance
ExistsFuzzyExact(rows, item) ==
  \E i \in 1 .. Len(rows) :
    /\ rows[i].date = item.date
    /\ rows[i].type = ActivityType(item.type)
    /\ rows[i].dist = item.distance

\* select ... eq date, eq type, distance_km between 0.95 and 1.05 times the
\* candidate's distance: some row matches
ExistsFuzzy(rows, item) ==
  \E i \in 1 .. Len(rows) :
    /\ rows[i].date = item.date
    /\ rows[i].type = ActivityType(item.type)
    /\ 100 * rows[i].dist >= 95 * item.distance
    /\ 100 * rows[i].dist <= 105 * item.distance

\* the lists of fetched activities: every arrangement of up to MaxBatch of them
RECURSIVE Lists(_)
Lists(n) ==
  IF n = 0 THEN {<<>>}
  ELSE LET shorter == Lists(n - 1)
       IN shorter \cup {Append(l, a) : l \in {x \in shorter : Len(x) = n - 1},
                                       a \in StravaActivities}

\* the most recent date of the imported activities: dates.sort().reverse()[0]
RECURSIVE MostRecentDate(_)
MostRecentDate(imported) ==
  IF Len(imported) = 1 THEN imported[1].date
  ELSE Max(imported[1].date, MostRecentDate(Tail(imported)))

RECURSIVE TotalPoints(_)
TotalPoints(imported) ==
  IF imported = <<>> THEN 0 ELSE imported[1].pts + TotalPoints(Tail(imported))

\* the streak the import writes, from the row it read and the most recent date
ImportStreak(p, mostRecentDate, yesterday) ==
  IF p.last = mostRecentDate THEN p.streak
  ELSE IF p.last = yesterday THEN p.streak + 1
  ELSE IF p.last # Null /\ mostRecentDate - p.last = 1 THEN p.streak + 1
  ELSE 1

AdvanceProfileImport(p, imported, yesterday) ==
  [exists |-> TRUE, points |-> p.points + TotalPoints(imported),
   streak |-> ImportStreak(p, MostRecentDate(imported), yesterday),
   last |-> MostRecentDate(imported)]

\* the per-item loop as a function, every storage call succeeding: the rows of
\* table activities after the items of todo have been handled in order
RECURSIVE importLoop(_, _)
importLoop(rows, todo) ==
  IF todo = <<>> THEN rows
  ELSE LET item == Head(todo)
           type == ActivityType(item.type)
           pts == calculatePoints(type, item.distance, ItemDur(item))
           row == Row(type, item.distance, ItemDur(item), item.date, pts, item.id)
       IN IF ExistsByStravaId(rows, item) \/ ExistsFuzzy(rows, item)
          THEN importLoop(rows, Tail(todo))
          ELSE importLoop(Append(rows, row), Tail(todo))

\* the request arrives and the activities are fetched from Strava
ImportStart(r) ==
  /\ h[r].pc = "idle"
  /\ started < MaxRequests
  /\ \E list \in Lists(MaxBatch) \ {<<>>} :
       h' = [h EXCEPT ![r] = [IdleHandler EXCEPT !.pc = "checkId", !.list = list,
                                !.todo = list, !.rows0 = dbActivities,
                                !.prof0 = profile]]
  /\ started' = started + 1
  /\ Begin
  /\ ev' = [NoEvent EXCEPT !.op = "importStart", !.r = r]
  /\ UNCHANGED <<strava, friends>>
  /\ UNCHANGED <<now, profile, dbActivities, activities, users, faults>>

\* a variant that leaves the loop before the last item
AfterItemEarly(todo) == IF Len(todo) > 2 THEN "checkId" ELSE "summary"

\* the types of Strava's taxonomy that the mapping names, two it does not name,
\* and an activity without a type
StravaTypes ==
  {"Run", "TrailRun", "Walk", "Hike", "Ride", "EBikeRide", "Swim", "Yoga", ""}

\* the request arrives with the id of one activity, which Strava returns with any
\* of its types
ImportStartOne(r) ==
  /\ h[r].pc = "idle"
  /\ started < MaxRequests
  /\ \E t \in StravaTypes, id \in {4, 5} :
       LET list == <<[id |-> id, type |-> t, distance |-> 3000, moving_time |-> 1200,
                      date |-> 1]>>
       IN h' = [h EXCEPT ![r] = [IdleHandler EXCEPT !.pc = "checkId", !.list = list,
                                   !.todo = list, !.rows0 = dbActivities,
                                   !.prof0 = profile]]
  /\ started' = started + 1
  /\ Begin
  /\ ev' = [NoEvent EXCEPT !.op = "importStart", !.r = r]
  /\ UNCHANGED <<strava, friends>>
  /\ UNCHANGED <<now, profile, dbActivities, activities, users, faults>>

\* where the loop goes after an item: the next item, or the profile update
AfterItem(todo) == IF Len(todo) > 1 THEN "checkId" ELSE "summary"

\* first duplicate check, by Strava id
ImportCheckId(r) ==
  /\ h[r].pc = "checkId"
  /\ LET item == Head(h[r].todo)
     IN IF ExistsByStravaId(dbActivities, item)
        THEN /\ h' = [h EXCEPT ![r].pc = AfterItem(h[r].todo),
                        ![r].todo = Tail(h[r].todo),
                        ![r].skipped = h[r].skipped + 1]
             /\ ev' = [NoEvent EXCEPT !.op = "item", !.r = r, !.item = item,
                        !.rows = dbActivities, !.imp = h[r].imported,
                        !.skip = h[r].skipped]
        ELSE /\ h' = [h EXCEPT ![r].pc = "checkFuzzy"]
             /\ ev' = [NoEvent EXCEPT !.op = "checked", !.r = r]
  /\ UNCHANGED <<strava, friends>>
  /\ UNCHANGED <<now, profile, dbActivities, activities, users, started, faults,
                 base, batch>>

\* second duplicate check, by date, type and approximate distance
ImportCheckFuzzy(r) ==
  /\ h[r].pc = "checkFuzzy"
  /\ LET item == Head(h[r].todo)
     IN IF ExistsFuzzy(dbActivities, item)
        THEN /\ h' = [h EXCEPT ![r].pc = AfterItem(h[r].todo),
                        ![r].todo = Tail(h[r].todo),
                        ![r].skipped = h[r].skipped + 1]
             /\ ev' = [NoEvent EXCEPT !.op = "item", !.r = r, !.item = item,
                        !.rows = dbActivities, !.imp = h[r].imported,
                        !.skip = h[r].skipped]
        ELSE /\ h' = [h EXCEPT ![r].pc = "insert"]
             /\ ev' = [NoEvent EXCEPT !.op = "checked", !.r = r]
  /\ UNCHANGED <<strava, friends>>
  /\ UNCHANGED <<now, profile, dbActivities, activities, users, started, faults,
                 base, batch>>

\* the activity is scored and inserted; a failed insert counts as skipped
ImportInsert(r) ==
  /\ h[r].pc = "insert"
  /\ \E ok \in BOOLEAN :
       LET item == Head(h[r].todo)
           type == ActivityType(item.type)
           pts == calculatePoints(type, item.distance, ItemDur(item))
           row == Row(type, item.distance, ItemDur(item), item.date, pts, item.id)
       IN /\ ok \/ faults < MaxFaults
          /\ faults' = IF ok THEN faults ELSE faults + 1
          /\ dbActivities' = IF ok THEN Append(dbActivities, row) ELSE dbActivities
          /\ h' = [h EXCEPT ![r].pc = AfterItem(h[r].todo),
                     ![r].todo = Tail(h[r].todo),
                     ![r].imported =
                        IF ok THEN Append(h[r].imported,
                                          [sid |-> item.id, date |-> item.date, pts |-> pts])
                        ELSE h[r].imported,
                     ![r].skipped = IF ok THEN h[r].skipped ELSE h[r].skipped + 1]
          /\ ev' = [NoEvent EXCEPT !.op = "item", !.r = r, !.item = item,
                     !.rows = dbActivities, !.imp = h[r].imported, !.stored = ok,
                     !.skip = h[r].skipped, !.failed = ~ok]
  /\ UNCHANGED <<strava, friends>>
  /\ UNCHANGED <<now, profile, activities, users, started, base, batch>>

\* after the loop: nothing imported, or no profile row, ends the request; otherwise
\* the update is computed from the row read and from yesterday's date
ImportReadProfile(r) ==
  /\ h[r].pc = "summary"
  /\ \E ok \in BOOLEAN :
       /\ ok \/ (faults < MaxFaults /\ h[r].imported # <<>> /\ profile.exists)
       /\ faults' = IF ok THEN faults ELSE faults + 1
       /\ IF h[r].imported # <<>> /\ ok /\ profile.exists
          THEN /\ h' = [h EXCEPT ![r].pc = "importRead", ![r].yest = now - 1,
                          ![r].upd = AdvanceProfileImport(profile, h[r].imported, now - 1)]
               /\ ev' = [NoEvent EXCEPT !.op = "read", !.r = r]
          ELSE /\ h' = [h EXCEPT ![r] = IdleHandler]
               /\ ev' = [NoEvent EXCEPT !.op = "importDone", !.r = r, !.done = TRUE,
                          !.prev = profile, !.imp = h[r].imported, !.list = h[r].list,
                          !.rows = h[r].rows0, !.prof0 = h[r].prof0,
                          !.stored = h[r].imported # <<>>, !.skip = h[r].skipped]
  /\ UNCHANGED <<strava, friends>>
  /\ UNCHANGED <<now, profile, dbActivities, activities, users, started, base, batch>>

\* the update of the profile row is applied, or fails and is only logged
ImportWriteProfile(r) ==
  /\ h[r].pc = "importRead"
  /\ \E ok \in BOOLEAN :
       /\ ok \/ faults < MaxFaults
       /\ faults' = IF ok THEN faults ELSE faults + 1
       /\ profile' = IF ok THEN h[r].upd ELSE profile
       /\ batch' = IF ok
                   THEN Append(batch, [kind |-> "import", pts |-> TotalPoints(h[r].imported),
                                       date |-> MostRecentDate(h[r].imported),
                                       yest |-> h[r].yest])
                   ELSE batch
       /\ ev' = [NoEvent EXCEPT !.op = IF ok THEN "advanceImport" ELSE "importDone",
                  !.r = r, !.done = TRUE, !.prev = profile, !.yest = h[r].yest,
                  !.pts = TotalPoints(h[r].imported),
                  !.date = MostRecentDate(h[r].imported),
                  !.imp = h[r].imported, !.list = h[r].list, !.rows = h[r].rows0,
                  !.prof0 = h[r].prof0, !.stored = TRUE, !.advanced = ok,
                  !.skip = h[r].skipped]
  /\ h' = [h EXCEPT ![r] = IdleHandler]
  /\ UNCHANGED <<strava, friends>>
  /\ UNCHANGED <<now, dbActivities, activities, users, started, base>>

\* ---- POST /api/activities/import-strava with importAll: the pagination loop ----
\* per_page of the request and the last page the loop asks for
perPage == 30
maxPages == 10

\* what a request for one page can come back with: the number of activities of
\* the page, or Null when the request throws
PageOutcomes == {Null, 0, 1, perPage - 1, perPage}

hasMoreAfterAny(len) == len > 0

\* hasMore = activities.length === 30
hasMoreAfter(len) == len = perPage

RECURSIVE SumSeq(_)
SumSeq(s) == IF s = <<>> THEN 0 ELSE Head(s) + SumSeq(Tail(s))

\* the request arrives with importAll: page = 1, hasMore = true and
\* allStravaActivities = [] (kept as the lengths of the pages pushed into it)
ImportAllStart(r) ==
  /\ h[r].pc = "idle"
  /\ started < MaxRequests
  /\ h' = [h EXCEPT ![r] = [IdleHandler EXCEPT !.pc = "fetch"]]
  /\ started' = started + 1
  /\ Begin
  /\ ev' = [NoEvent EXCEPT !.op = "importAllStart", !.r = r]
  /\ UNCHANGED <<strava, friends>>
  /\ UNCHANGED <<now, profile, dbActivities, activities, users, faults>>

\* one turn of while (hasMore && page <= 10): the page is requested and the
\* answer handled
FetchPage(r) ==
  /\ h[r].pc = "fetch"
  /\ h[r].hasMore /\ h[r].page <= maxPages
  /\ \E out \in PageOutcomes :
       /\ h' = [h EXCEPT ![r] =
                  IF out = Null
                  THEN [@ EXCEPT !.hasMore = FALSE, !.requests = @ + 1]
                  ELSE IF out > 0
                  THEN [@ EXCEPT !.pages = Append(@, out),
                                 !.hasMore = hasMoreAfter(out),
                                 !.page = @ + 1, !.requests = @ + 1]
                  ELSE [@ EXCEPT !.hasMore = FALSE, !.requests = @ + 1]]
       /\ ev' = [NoEvent EXCEPT !.op = "page", !.r = r, !.failed = (out = Null),
                                !.len = IF out = Null THEN 0 ELSE out,
                                !.pages = h[r].pages,
                                !.requests = h[r].requests + 1]
  /\ UNCHANGED <<strava, friends>>
  /\ UNCHANGED <<now, profile, dbActivities, activities, users, started, faults,
                 base, batch>>

\* the loop is left: activitiesToImport = allStravaActivities; the response
\* carries the number of activities handed to the per-item loop
FetchEnd(r) ==
  /\ h[r].pc = "fetch"
  /\ ~(h[r].hasMore /\ h[r].page <= maxPages)
  /\ h' = [h EXCEPT ![r] = IdleHandler]
  /\ ev' = [NoEvent EXCEPT !.op = "fetched", !.r = r, !.pages = h[r].pages,
                           !.requests = h[r].requests,
                           !.total = SumSeq(h[r].pages), !.done = TRUE]
  /\ UNCHANGED <<strava, friends>>
  /\ UNCHANGED <<now, profile, dbActivities, activities, users, started, faults,
                 base, batch>>

FetchStep(r) == ImportAllStart(r) \/ FetchPage(r) \/ FetchEnd(r)

ImportStep(r) ==
  \/ ImportStart(r) \/ ImportCheckId(r) \/ ImportCheckFuzzy(r)
  \/ ImportInsert(r) \/ ImportReadProfile(r) \/ ImportWriteProfile(r)

\* the import of single activities of any Strava type
ImportOneStep(r) ==
  \/ ImportStartOne(r) \/ ImportCheckId(r) \/ ImportCheckFuzzy(r)
  \/ ImportInsert(r) \/ ImportReadProfile(r) \/ ImportWriteProfile(r)

LogStep(r) == LogInsert(r) \/ LogReadProfile(r) \/ LogWriteProfile(r)

\* ---- GET /api/strava/auth and GET /api/strava/callback ----
MaxStates == 2
MaxCallbacks == 2
MaxClock == 3

\* 10 * 60 * 1000 ms, in units of five minutes
tenMinutes == 2

\* generateState() of ./strava-utils: a value it has not returned before
generateState == issued + 1

\* oauthStates.set(state, stateData)
set(states, state, timestamp) ==
  {e \in states : e.state # state} \cup {[state |-> state, timestamp |-> timestamp]}

\* the states older than ten minutes are deleted
cleanUp(states, t) == {e \in states : ~(e.timestamp < t - tenMinutes)}

deleteNothing(states, state) == states

\* oauthStates.delete(state)
delete(states, state) == {e \in states : e.state # state}

\* time passes
Wait ==
  /\ clock < MaxClock
  /\ clock' = clock + 1
  /\ ev' = [NoEvent EXCEPT !.op = "wait"]
  /\ UNCHANGED <<now, profile, dbActivities, activities, users, h, started, faults,
                 base, batch, oauthStates, issued, callbacks, friends>>

\* GET /api/strava/auth: refused when the caller is not identified, else a state
\* is issued and the old states are cleaned up
StravaAuth ==
  /\ issued < MaxStates
  /\ \E identified \in BOOLEAN :
       IF identified
       THEN LET state == generateState
            IN /\ oauthStates' = cleanUp(set(oauthStates, state, clock), clock)
               /\ issued' = state
               /\ ev' = [NoEvent EXCEPT !.op = "auth"]
       ELSE /\ ev' = [NoEvent EXCEPT !.op = "authRefused"]
            /\ UNCHANGED <<oauthStates, issued>>
  /\ UNCHANGED <<now, profile, dbActivities, activities, users, h, started, faults,
                 base, batch, clock, callbacks, friends>>

\* the query of a callback: Strava reports an error, the code is missing, or a
\* code is there; the state is missing (0), one of those issued or to be issued,
\* or one that is never issued
Queries == {"error", "nocode", "code"}
CallbackStates == 0 .. MaxStates + 1

\* GET /api/strava/callback up to the call of exchangeCodeForTokens
StravaCallback ==
  /\ Len(callbacks) < MaxCallbacks
  /\ \E query \in Queries, state \in CallbackStates :
       LET stateData == {e \in oauthStates : e.state = state}
           result == IF query = "error" THEN "error"
                     ELSE IF query = "nocode" \/ state = 0 THEN "missing"
                     ELSE IF stateData = {} THEN "invalid"
                     ELSE "exchange"
       IN /\ oauthStates' = IF result = "exchange" THEN delete(oauthStates, state)
                            ELSE oauthStates
          /\ callbacks' = Append(callbacks,
                                 [state |-> state, query |-> query, result |-> result,
                                  wasIssued |-> state \in 1 .. issued])
          /\ ev' = [NoEvent EXCEPT !.op = "callback"]
  /\ UNCHANGED <<now, profile, dbActivities, activities, users, h, started, faults,
                 base, batch, clock, issued, friends>>

\* the exchange returns and the tokens are stored, or it throws
StravaCallbackFinish ==
  /\ \E i \in 1 .. Len(callbacks), result \in {"stored", "failed"} :
       /\ callbacks[i].result = "exchange"
       /\ callbacks' = [callbacks EXCEPT ![i].result = result]
       /\ ev' = [NoEvent EXCEPT !.op = "callbackFinish"]
  /\ UNCHANGED <<now, profile, dbActivities, activities, users, h, started, faults,
                 base, batch, clock, oauthStates, issued, friends>>

\* ---- POST /api/friends/request and POST /api/friends/respond ----
MaxFriendOps == 3

\* the ids of the signed-in users
UserIds == {1, 2}

\* a row of table friend_requests; changes counts the updates of its status
FriendRequestRow(sender, receiver) ==
  [sender |-> sender, receiver |-> receiver, status |-> "pending", changes |-> 0]

\* the request is between the two users, in either direction
Between(row, a, b) ==
  \/ row.sender = a /\ row.receiver = b
  \/ row.sender = b /\ row.receiver = a

\* user1_id < user2_id
Pair(a, b) == IF a < b THEN <<a, b>> ELSE <<b, a>>

\* a storage call succeeds, or fails while failures are left
StorageOk == {TRUE} \cup (IF faults < MaxFaults THEN {FALSE} ELSE {})

\* the request arrives, its body is checked and the requests of the user are
\* read: the rows come in no stated order and find takes the first match
FriendRequestCheck(r) ==
  /\ h[r].pc = "idle"
  /\ started < MaxFriendOps
  /\ started' = started + 1
  /\ \E user \in UserIds, receiver_id \in {0} \cup UserIds :
       IF receiver_id = 0 \/ receiver_id = user
       THEN /\ ev' = [NoEvent EXCEPT !.op = "friendRequestRefused", !.r = r]
            /\ UNCHANGED <<h, faults>>
       ELSE \E ok \in StorageOk :
              LET matches == {i \in 1 .. Len(friend_requests) :
                                Between(friend_requests[i], user, receiver_id)}
              IN /\ \E existing \in (IF ok /\ matches # {} THEN matches ELSE {0}) :
                      IF existing # 0
                         /\ friend_requests[existing].status \in {"pending", "accepted"}
                      THEN /\ ev' = [NoEvent EXCEPT !.op = "friendRequestRefused", !.r = r]
                           /\ UNCHANGED h
                      ELSE /\ h' = [h EXCEPT ![r] = [IdleHandler EXCEPT
                                       !.pc = "frFriendship", !.user = user,
                                       !.receiver = receiver_id]]
                           /\ ev' = [NoEvent EXCEPT !.op = "friendRequestCheck", !.r = r]
                 /\ faults' = IF ok THEN faults ELSE faults + 1
  /\ UNCHANGED <<now, profile, dbActivities, activities, users, base, batch, strava,
                 friends>>

\* the friendship of the two users is looked up
FriendRequestCheckFriendship(r) ==
  /\ h[r].pc = "frFriendship"
  /\ \E ok \in StorageOk :
       /\ IF ok /\ Pair(h[r].user, h[r].receiver) \in friendships
          THEN /\ h' = [h EXCEPT ![r] = IdleHandler]
               /\ ev' = [NoEvent EXCEPT !.op = "friendRequestRefused", !.r = r]
          ELSE /\ h' = [h EXCEPT ![r].pc = "frInsert"]
               /\ ev' = [NoEvent EXCEPT !.op = "friendRequestCheck", !.r = r]
       /\ faults' = IF ok THEN faults ELSE faults + 1
  /\ UNCHANGED <<now, profile, dbActivities, activities, users, started, base, batch,
                 strava, friends>>

\* the request is inserted, unless the write fails or UNIQUE(sender_id,
\* receiver_id) refuses the row
FriendRequestInsert(r) ==
  /\ h[r].pc = "frInsert"
  /\ \E ok \in StorageOk :
       LET duplicate == \E i \in 1 .. Len(friend_requests) :
                          /\ friend_requests[i].sender = h[r].user
                          /\ friend_requests[i].receiver = h[r].receiver
       IN /\ IF ok /\ ~duplicate
             THEN /\ friend_requests' =
                       Append(friend_requests, FriendRequestRow(h[r].user, h[r].receiver))
                  /\ ev' = [NoEvent EXCEPT !.op = "friendRequestSent", !.r = r,
                                           !.done = TRUE]
             ELSE /\ ev' = [NoEvent EXCEPT !.op = "friendRequestFailed", !.r = r,
                                           !.failed = TRUE]
                  /\ UNCHANGED friend_requests
          /\ faults' = IF ok THEN faults ELSE faults + 1
  /\ h' = [h EXCEPT ![r] = IdleHandler]
  /\ UNCHANGED <<now, profile, dbActivities, activities, users, started, base, batch,
                 strava, friendships>>

\* the answers a receiver can send: accept, reject or anything else
FriendActions == {"accept", "reject", "block"}

\* the answer arrives, its body is checked and the pending request of that id
\* addressed to the user is read
FriendRespondRead(r) ==
  /\ h[r].pc = "idle"
  /\ started < MaxFriendOps
  /\ started' = started + 1
  /\ \E user \in UserIds, request_id \in 0 .. Len(friend_requests) + 1,
        action \in FriendActions :
       IF request_id = 0 \/ action \notin {"accept", "reject"}
       THEN /\ ev' = [NoEvent EXCEPT !.op = "friendRespondRefused", !.r = r]
            /\ UNCHANGED <<h, faults>>
       ELSE \E ok \in StorageOk :
              LET found == /\ ok
                           /\ request_id <= Len(friend_requests)
                           /\ friend_requests[request_id].receiver = user
                           /\ friend_requests[request_id].status = "pending"
              IN /\ IF found
                    THEN /\ h' = [h EXCEPT ![r] = [IdleHandler EXCEPT
                                     !.pc = IF action = "accept" THEN "rsInsert"
                                            ELSE "rsUpdate",
                                     !.user = user, !.req = request_id,
                                     !.action = action]]
                         /\ ev' = [NoEvent EXCEPT !.op = "friendRespondRead", !.r = r]
                    ELSE /\ ev' = [NoEvent EXCEPT !.op = "friendRespondRefused", !.r = r]
                         /\ UNCHANGED h
                 /\ faults' = IF ok THEN faults ELSE faults + 1
  /\ UNCHANGED <<now, profile, dbActivities, activities, users, base, batch, strava,
                 friends>>

\* accept: the friendship is inserted, unless the write fails or
\* UNIQUE(user1_id, user2_id) refuses the row
FriendRespondInsert(r) ==
  /\ h[r].pc = "rsInsert"
  /\ \E ok \in StorageOk :
       LET request == friend_requests[h[r].req]
           pair == Pair(request.sender, request.receiver)
       IN /\ IF ok /\ pair \notin friendships
             THEN /\ friendships' = friendships \cup {pair}
                  /\ h' = [h EXCEPT ![r].pc = "rsUpdate"]
                  /\ ev' = [NoEvent EXCEPT !.op = "friendshipInserted", !.r = r]
             ELSE /\ h' = [h EXCEPT ![r] = IdleHandler]
                  /\ ev' = [NoEvent EXCEPT !.op = "friendRespondFailed", !.r = r,
                                           !.failed = TRUE]
                  /\ UNCHANGED friendships
          /\ faults' = IF ok THEN faults ELSE faults + 1
  /\ UNCHANGED <<now, profile, dbActivities, activities, users, started, base, batch,
                 strava, friend_requests>>

\* the status of the request of that id is updated
FriendRespondUpdate(r) ==
  /\ h[r].pc = "rsUpdate"
  /\ \E ok \in StorageOk :
       /\ IF ok
          THEN /\ friend_requests' = [friend_requests EXCEPT
                      ![h[r].req].status = IF h[r].action = "accept" THEN "accepted"
                                           ELSE "rejected",
                      ![h[r].req].changes = @ + 1]
               /\ ev' = [NoEvent EXCEPT !.op = "friendResponded", !.r = r,
                                        !.done = TRUE]
          ELSE /\ ev' = [NoEvent EXCEPT !.op = "friendRespondFailed", !.r = r,
                                        !.failed = TRUE]
               /\ UNCHANGED friend_requests
       /\ faults' = IF ok THEN faults ELSE faults + 1
  /\ h' = [h EXCEPT ![r] = IdleHandler]
  /\ UNCHANGED <<now, profile, dbActivities, activities, users, started, base, batch,
                 strava, friendships>>

FriendStep(r) ==
  \/ FriendRequestCheck(r) \/ FriendRequestCheckFriendship(r) \/ FriendRequestInsert(r)
  \/ FriendRespondRead(r) \/ FriendRespondInsert(r) \/ FriendRespondUpdate(r)

SeqNext == Tick \/ LogStep(1) \/ ImportStep(1)
SpecSeq == Init /\ [][SeqNext]_vars

LogNext == Tick \/ LogStep(1)
SpecLog == Init /\ [][LogNext]_vars

\* the import starts from a fresh account or from one that has logged a run
LoggedRun == Row("run", 5000, 1800, 1, calculatePoints("run", 5000, 1800), Null)
InitImport ==
  /\ now \in 1 .. MaxDay
  /\ \/ dbActivities = <<>> /\ profile \in {NoProfile, NewProfile}
     \/ /\ dbActivities = <<LoggedRun>>
        /\ profile = AdvanceProfile(NewProfile, LoggedRun.pts, LoggedRun.date, now - 1)
  /\ activities = <<>>
  /\ users = NewUser
  /\ h = [r \in Handlers |-> IdleHandler]
  /\ started = 0
  /\ faults = 0
  /\ base = profile
  /\ batch = <<>>
  /\ ev = NoEvent
  /\ InitServer

ImportNext == Tick \/ ImportStep(1)
SpecImport == InitImport /\ [][ImportNext]_vars

ImportOneNext == Tick \/ ImportOneStep(1)
SpecImportOne == InitImport /\ [][ImportOneNext]_vars

LegacyNext == Tick \/ LegacyPostActivities
SpecLegacy == Init /\ [][LegacyNext]_vars

\* profile edits between the steps of activity submissions
ProfileNext == Tick \/ LogStep(1) \/ ProfileUpsert
SpecProfile == Init /\ [][ProfileNext]_vars

\* validateActivity called on any candidate, on any day
InitValidate ==
  /\ now \in (1 .. MaxDay) \cup {YearDays + 1}
  /\ profile = NoProfile
  /\ dbActivities = <<>>
  /\ activities = <<>>
  /\ users = NewUser
  /\ h = [r \in Handlers |-> IdleHandler]
  /\ started = 0
  /\ faults = 0
  /\ base = profile
  /\ batch = <<>>
  /\ \E c \in Candidates : ev = [NoEvent EXCEPT !.cand = c]
  /\ InitServer

SpecValidate == InitValidate /\ [][Validate]_vars

\* calculatePoints called, repeatedly, on any activity
InitScore == InitValidate /\ ev.cand.date = Null /\ now <= MaxDay
SpecScore == InitScore /\ [][Score]_vars

\* import-all requests; every request for a page returns or throws
FetchNext == Tick \/ FetchStep(1)
SpecFetch == Init /\ [][FetchNext]_vars
FairSpecFetch == SpecFetch /\ WF_vars(FetchPage(1)) /\ WF_vars(FetchEnd(1))

\* the OAuth handshake with Strava
OAuthNext == Wait \/ StravaAuth \/ StravaCallback \/ StravaCallbackFinish
InitOAuth == Init /\ now = 1 /\ profile = NoProfile
SpecOAuth == InitOAuth /\ [][OAuthNext]_vars

\* friend requests and answers, one at a time
InitFriends == Init /\ now = 1 /\ profile = NoProfile
FriendsNext == FriendStep(1)
SpecFriends == InitFriends /\ [][FriendsNext]_vars

Next == Tick \/ \E r \in Handlers : LogStep(r) \/ ImportStep(r)
Spec == Init /\ [][Next]_vars

\* ======================= properties =======================

\* the progress record the last step credited: the profile row, or the legacy
\* server's user record
Credited ==
  IF ev.r = 0
  THEN [exists |-> TRUE, points |-> users.points, streak |-> users.streak,
        last |-> users.lastActivityDate]
  ELSE profile

LoggedDates == {dbActivities[i].date : i \in 1 .. Len(dbActivities)}

\* the number of consecutive days, ending at day d, that are all in S
RECURSIVE ConsecutiveDays(_, _)
ConsecutiveDays(S, d) == IF d \in S THEN 1 + ConsecutiveDays(S, d - 1) ELSE 0

RECURSIVE SumPoints(_)
SumPoints(rows) == IF rows = <<>> THEN 0 ELSE rows[1].pts + SumPoints(Tail(rows))

\* C1: once every request has been answered, the stored streak is the number of
\* consecutive days, ending at last_activity_date, that each hold a stored
\* activity (stated here for runs in which no storage call has failed and no
\* activity is dated in the future).
C1_StreakCountsConsecutiveDays ==
  (AllIdle /\ faults = 0 /\ profile.exists /\ profile.last # Null
     /\ \A d \in LoggedDates : d <= now)
    => profile.streak = ConsecutiveDays(LoggedDates, profile.last)

\* C2: an activity dated exactly one day after the stored last activity date
\* raises the streak by exactly 1, whatever the day of the request (stated
\* here for activities that validateActivity accepts).
C2_NextDayIncrements ==
  (ev.op = "advance" /\ ev.errors = 0 /\ ev.prev.last # Null
     /\ ev.date = ev.prev.last + 1)
    => Credited.streak = ev.prev.streak + 1

\* C3: an activity whose date is neither the stored last activity date nor the
\* day after it (a gap, no last date, or an earlier date) sets the streak to 1
\* (stated here for activities that validateActivity accepts).
C3_OtherwiseResets ==
  (ev.op = "advance" /\ ev.errors = 0 /\ ev.date # ev.prev.last
     /\ (ev.prev.last = Null \/ ev.date # ev.prev.last + 1))
    => Credited.streak = 1

\* C4: an activity dated on the stored last activity date leaves streak and last
\* activity date as they were and adds only its points.
C4_SameDayKeepsStreak ==
  (ev.op = "advance" /\ ev.date = ev.prev.last)
    => /\ Credited.streak = ev.prev.streak
       /\ Credited.last = ev.prev.last
       /\ Credited.points = ev.prev.points + ev.pts

\* C4 witness: a second activity on the last activity date, which is also the day
\* before the request
C4_Witness ==
  /\ ev.op = "advance"
  /\ ev.date = ev.prev.last
  /\ ev.prev.last = ev.yest
  /\ ev.prev.streak >= 1
  /\ ev.pts > 0

\* C5: after every request, the profile's points are the sum of points_earned of
\* the activities stored for the user, whatever the storage calls answered.
C5_PointsAreSumOfStored ==
  (AllIdle /\ profile.exists) => profile.points = SumPoints(dbActivities)

\* C6: a candidate that validateActivity rejects is never stored and never
\* advances the profile.
C6_RejectedNeverStored ==
  (ev.r # 0 /\ ev.op \in {"insert", "advance"}) => ev.errors = 0

\* the profile after two submissions handled one after the other
Serial(p, a, b) ==
  AdvanceProfile(AdvanceProfile(p, a.pts, a.date, a.yest), b.pts, b.date, b.yest)

\* C7: two activity submissions handled concurrently, with every storage call
\* succeeding, leave the profile as handling them one after the other in some
\* order does.
C7_ConcurrentEqualsSerial ==
  (AllIdle /\ faults = 0 /\ Len(batch) = 2
     /\ batch[1].kind = "log" /\ batch[2].kind = "log")
    => profile \in {Serial(base, batch[1], batch[2]), Serial(base, batch[2], batch[1])}

\* C8: when POST /activities has answered, the activity is in table activities
\* exactly if the profile was advanced for it.
C8_StoredIffAdvanced ==
  (ev.r # 0 /\ ev.done /\ ev.op \in {"fallback", "respond", "advance"})
    => (ev.stored <=> ev.advanced)

\* the streak transition as the claims C2 to C4 state it, by dates alone
DatedStreak(p, date) ==
  IF p.last = date THEN p.streak
  ELSE IF p.last # Null /\ date = p.last + 1 THEN p.streak + 1
  ELSE 1

\* a single-activity transition applied once per date of S, in ascending order:
\* that of POST /activities (byClock) or the one by dates alone
RECURSIVE FoldDays(_, _, _, _)
FoldDays(p, S, yesterday, byClock) ==
  IF S = {} THEN p
  ELSE LET d == CHOOSE x \in S : \A y \in S : x <= y
           streak == IF byClock THEN NewStreak(p, d, yesterday) ELSE DatedStreak(p, d)
       IN FoldDays([p EXCEPT !.streak = streak, !.last = d], S \ {d}, yesterday, byClock)

ImportedDates(imported) == {imported[i].date : i \in 1 .. Len(imported)}

\* C9: the streak and last activity date an import writes are those of the
\* single-activity transition applied once per distinct imported date, in
\* ascending order, to the profile before the import (the transition read either
\* as POST /activities computes it or as the dates alone give it).
C9_ImportFoldsPerDay ==
  (ev.op = "advanceImport")
    => \E byClock \in BOOLEAN :
         LET folded == FoldDays(ev.prev, ImportedDates(ev.imp), ev.yest, byClock)
         IN profile.streak = folded.streak /\ profile.last = folded.last

\* the type an imported activity is stored under
StoredType(stravaType) ==
  CASE stravaType \in {"Run", "TrailRun"} -> "run"
    [] stravaType \in {"Walk", "Hike"} -> "walk"
    [] OTHER -> "workout"

\* a fetched activity is already stored: a row has its Strava id, or its date and
\* type and a distance within 5 % of the activity's distance
AlreadyStored(item, rows) ==
  \E i \in 1 .. Len(rows) :
    \/ rows[i].sid = item.id
    \/ /\ rows[i].date = item.date
       /\ rows[i].type = StoredType(item.type)
       /\ 100 * rows[i].dist >= 95 * item.distance
       /\ 100 * rows[i].dist <= 105 * item.distance

AllAlreadyStored(list, rows) ==
  \A k \in 1 .. Len(list) : AlreadyStored(list[k], rows)

ImportedAreStored(rows0, imported, rows) ==
  /\ Len(rows) = Len(rows0) + Len(imported)
  /\ \A i \in 1 .. Len(rows0) : rows[i] = rows0[i]
  /\ \A k \in 1 .. Len(imported) :
       /\ rows[Len(rows0) + k].sid = imported[k].sid
       /\ rows[Len(rows0) + k].pts = imported[k].pts

\* C11: in an import that reaches the per-item loop, every fetched activity is
\* counted exactly once, as imported or as skipped: after each item the counted
\* and the remaining items add up to the fetched ones, and the response reports
\* imported + skipped = fetched. An item whose insert fails is counted as skipped,
\* and the items stored before it stay stored.
C11_EachItemCountedOnce ==
  /\ ev.op = "item"
       => /\ Len(h[ev.r].imported) + h[ev.r].skipped + Len(h[ev.r].todo)
               = Len(h[ev.r].list)
          /\ Len(h[ev.r].imported) + h[ev.r].skipped = Len(ev.imp) + ev.skip + 1
  /\ (ev.op = "item" /\ ev.failed)
       => /\ h[ev.r].skipped = ev.skip + 1
          /\ h[ev.r].imported = ev.imp
          /\ dbActivities = ev.rows
          /\ ImportedAreStored(h[ev.r].rows0, ev.imp, dbActivities)
  /\ ev.op \in {"importDone", "advanceImport"}
       => /\ Len(ev.imp) + ev.skip = Len(ev.list)
          /\ ImportedAreStored(ev.rows, ev.imp, dbActivities)

\* C11 witness: the insert of the second of two fetched activities fails after
\* the first was stored, and the import answers with one imported, one skipped
C11_Witness ==
  /\ ev.op \in {"importDone", "advanceImport"}
  /\ Len(ev.list) = 2
  /\ Len(ev.imp) = 1
  /\ ev.imp[1].sid = ev.list[1].id
  /\ ev.skip = 1
  /\ ~AlreadyStored(ev.list[2], dbActivities)

\* C12: importing a single Strava activity leaves the profile as POST /activities
\* leaves it when it logs, from the same profile row and on the same day, an
\* activity of the same type, distance, duration and date, and stores the same
\* points_earned (stated here for activities not dated in the future).
C12_ImportMatchesManual ==
  (ev.op = "advanceImport" /\ Len(ev.list) = 1 /\ ev.date <= now)
    => LET item == ev.list[1]
           type == StoredType(item.type)
           logged == AdvanceProfile(ev.prev,
                                    calculatePoints(type, item.distance, ItemDur(item)),
                                    item.date, ev.yest)
       IN /\ ev.imp[1].pts = calculatePoints(type, item.distance, ItemDur(item))
          /\ profile.points = logged.points
          /\ profile.streak = logged.streak
          /\ profile.last = logged.last

\* C13: POST /api/profiles/upsert leaves the stored points, streak and last
\* activity date of an existing profile as they were (stated here for a body
\* that has neither a points nor a streak field, and a profile that holds the
\* points of its stored activities).
C13_UpsertKeepsProgress ==
  (ev.op = "upsert" /\ ev.prev.exists /\ ev.body = <<Undefined, Undefined>>
     /\ dbActivities # <<>> /\ ev.prev.points = SumPoints(dbActivities))
    => /\ profile.points = ev.prev.points
       /\ profile.streak = ev.prev.streak
       /\ profile.last = ev.prev.last

\* C14: logging an activity never moves the last activity date backwards: after
\* the profile is advanced, the last activity date is the later of the stored one
\* and the activity's date (stated here for activities that validateActivity
\* accepts).
C14_LastDateNeverBackwards ==
  (ev.op = "advance" /\ ev.errors = 0)
    => Credited.last = Max(ev.prev.last, ev.date)

\* C15: validateActivity on a workout with a positive distance returns valid =
\* false with the error for exceeding the type's distance cap, 0 km for workout
\* (stated here for candidates that break no other rule of duration or date).
C15_WorkoutDistanceRejected ==
  (ev.op = "validate" /\ ev.cand.type = "workout" /\ ev.cand.dist > 0
     /\ ev.cand.dur >= durationMin * 60 /\ ev.cand.dur <= 180 * 60
     /\ (ev.cand.date = Null \/ (ev.cand.date >= 0 /\ ev.cand.date <= now)))
    => /\ ~ev.res.valid
       /\ \E i \in 1 .. Len(ev.res.errors) :
            ev.res.errors[i].text = "distance above type maximum"

\* C16: in every result of validateActivity, valid is true exactly if errors is
\* empty; warnings, however many, do not make a candidate invalid.
C16_ValidIffNoErrors ==
  (ev.op = "validate") => (ev.res.valid <=> ev.res.errors = <<>>)

\* C16 witness: a candidate accepted with two or more warnings
C16_Witness ==
  /\ ev.op = "validate"
  /\ ev.res.valid
  /\ Len(ev.res.warnings) >= 2

\* C17: for a candidate without a type, validateActivity returns valid = false,
\* exactly one error and no warning, whatever distance, duration and date are.
C17_MissingTypeReturnsAtOnce ==
  (ev.op = "validate" /\ ev.cand.type = "")
    => /\ ~ev.res.valid
       /\ Len(ev.res.errors) = 1
       /\ ev.res.errors[1].text = "type required"
       /\ ev.res.warnings = <<>>

\* C17 witness: a candidate without a type whose distance, duration and date
\* would each fail a later rule
C17_Witness ==
  /\ ev.op = "validate"
  /\ ev.cand.type = ""
  /\ ev.cand.dist < 0
  /\ ev.cand.dur < 0
  /\ ev.cand.date = BadDate
  /\ Len(ev.res.errors) = 1

\* the distance caps as the claims state them, in km
CappedTypes == {"run", "walk", "bike", "swim"}
DistanceCapKm(t) ==
  CASE t = "run" -> 100 [] t = "walk" -> 80 [] t = "bike" -> 500 [] t = "swim" -> 50

HasError(res, text) == \E i \in 1 .. Len(res.errors) : res.errors[i].text = text

DistanceErrors ==
  {"negative distance", "distance above maximum", "distance above type maximum"}

\* C18: for run, walk, bike and swim a distance strictly above the type's cap
\* (100, 80, 500, 50 km) is rejected with an error that names the type and the
\* cap; for any type a distance above 500 km is rejected; a distance exactly at
\* the cap raises no distance error.
C18_DistanceCaps ==
  (ev.op = "validate")
    => /\ (ev.cand.type \in CappedTypes
             /\ ev.cand.dist > DistanceCapKm(ev.cand.type) * 1000)
            => /\ ~ev.res.valid
               /\ \E i \in 1 .. Len(ev.res.errors) :
                    ev.res.errors[i] = [text |-> "distance above type maximum",
                                        type |-> ev.cand.type,
                                        value |-> DistanceCapKm(ev.cand.type)]
       /\ (ev.cand.dist > 500 * 1000)
            => /\ ~ev.res.valid
               /\ ev.cand.type # "" => HasError(ev.res, "distance above maximum")
       /\ (ev.cand.type \in CappedTypes
             /\ ev.cand.dist = DistanceCapKm(ev.cand.type) * 1000)
            => \A text \in DistanceErrors : ~HasError(ev.res, text)

\* C18 witness: a run of 150 km in eight hours, within every limit of duration
\* and speed, rejected for the 100 km cap alone
C18_Witness ==
  /\ ev.op = "validate"
  /\ ev.cand = [type |-> "run", dist |-> 150000, dur |-> 28800, date |-> Null]
  /\ ~ev.res.valid
  /\ Len(ev.res.errors) = 1
  /\ HasError(ev.res, "distance above type maximum")

\* the duration caps as the claims state them, in minutes
DurationCappedTypes == {"run", "walk", "workout", "bike", "swim"}
DurationCapMin(t) ==
  CASE t = "run" -> 480 [] t = "walk" -> 600 [] t = "workout" -> 180
    [] t = "bike" -> 600 [] t = "swim" -> 240

DurationErrors ==
  {"negative duration", "duration or distance required", "duration below minimum",
   "duration above maximum", "duration above type maximum"}

\* C19: a candidate is rejected when its duration is negative, below 1 minute,
\* above 1440 minutes or above its type's cap (run 480, walk 600, workout 180,
\* bike 600, swim 240), and when duration and distance are both zero, each with
\* the error of that rule; for hike, yoga and other a duration from 1 to 1440
\* minutes raises no duration error.
C19_DurationBounds ==
  (ev.op = "validate")
    => LET c == ev.cand
           present == c.type # ""
       IN /\ (c.dur < 0) => (~ev.res.valid /\ (present => HasError(ev.res, "negative duration")))
          /\ (c.dur < 1 * 60) => ~ev.res.valid
          /\ (c.dur = 0 /\ c.dist = 0)
               => (~ev.res.valid
                   /\ (present => HasError(ev.res, "duration or distance required")))
          /\ (c.dur >= 0 /\ c.dur < 1 * 60 /\ ~(c.dur = 0 /\ c.dist = 0) /\ present)
               => HasError(ev.res, "duration below minimum")
          /\ (c.dur > 1440 * 60)
               => (~ev.res.valid /\ (present => HasError(ev.res, "duration above maximum")))
          /\ (c.type \in DurationCappedTypes /\ c.dur > DurationCapMin(c.type) * 60)
               => /\ ~ev.res.valid
                  /\ \E i \in 1 .. Len(ev.res.errors) :
                       ev.res.errors[i] = [text |-> "duration above type maximum",
                                           type |-> c.type,
                                           value |-> DurationCapMin(c.type)]
          /\ (c.type \in {"hike", "yoga", "other"} /\ c.dur >= 1 * 60 /\ c.dur <= 1440 * 60)
               => \A text \in DurationErrors : ~HasError(ev.res, text)

\* C19 witness: a swim of 1 km in 240 minutes and one second, rejected for the
\* 240 minute cap alone
C19_Witness ==
  /\ ev.op = "validate"
  /\ ev.cand = [type |-> "swim", dist |-> 1000, dur |-> 14401, date |-> Null]
  /\ ~ev.res.valid
  /\ Len(ev.res.errors) = 1
  /\ HasError(ev.res, "duration above type maximum")

\* the speed limits as the claims state them, in km/h
SpeedCappedTypes == {"run", "walk", "bike", "swim"}
SpeedCapKmh(t) ==
  CASE t = "run" -> 25 [] t = "walk" -> 8 [] t = "bike" -> 60 [] t = "swim" -> 10

\* the type in lower case, for the types of the candidates
Lower(t) == IF t = "Run" THEN "run" ELSE t

\* speed = distanceKm * 60 / durationMinutes = 36 dist / (10 dur) km/h
SpeedAbove(c, kmh) == 36 * c.dist > kmh * 10 * c.dur
\* pace = durationMinutes / distanceKm = 1000 dur / (60 dist) min/km
PaceAbove(c, minPerKm) == 1000 * c.dur > minPerKm * 60 * c.dist

HasWarning(res, text) == \E i \in 1 .. Len(res.warnings) : res.warnings[i].text = text

\* the wordings of the rules that reject
ErrorTexts ==
  {"invalid type", "invalid date", "future date", "speed above type maximum"}
    \cup DurationErrors \cup DistanceErrors

RECURSIVE Gcd(_, _)
Gcd(a, b) == IF b = 0 THEN a ELSE Gcd(b, a % b)
Reduce(f) == LET g == Gcd(f[1], f[2]) IN <<f[1] \div g, f[2] \div g>>

\* a date that can be parsed and is not after the day of validation
DateInBounds(c) == c.date = Null \/ (c.date >= 0 /\ c.date <= now)

C22_MetricsIffBothPositive ==
  (ev.op = "validate" /\ ev.cand.type # "")
    => IF ev.cand.dist > 0 /\ ev.cand.dur > 0
       THEN ev.res.speedKmh # <<>> /\ ev.res.paceMinPerKm # <<>>
       ELSE ev.res.speedKmh = <<>> /\ ev.res.paceMinPerKm = <<>>

\* C22 witness: a candidate with a distance and no duration, returned without
\* metrics
C22_Witness ==
  /\ ev.op = "validate"
  /\ ev.cand.type = "run"
  /\ ev.cand.dist > 0
  /\ ev.cand.dur = 0
  /\ ev.res.speedKmh = <<>>
  /\ ev.res.paceMinPerKm = <<>>

DateErrors == {"invalid date", "future date"}

\* C23: a candidate dated after the day of validation is rejected, with the
\* future-date error when it has a type; a date a year or more before the day of
\* validation adds the warning and raises no date error, so a candidate that
\* breaks no other rule stays valid.
C23_DateRule ==
  (ev.op = "validate" /\ ev.cand.date >= 0)
    => /\ (ev.cand.date > now)
            => (~ev.res.valid /\ (ev.cand.type # "" => HasError(ev.res, "future date")))
       /\ (ev.cand.type # "" /\ ev.cand.date + 365 <= now)
            => /\ HasWarning(ev.res, "more than one year ago")
               /\ \A text \in DateErrors : ~HasError(ev.res, text)
       /\ (ev.cand.type # "" /\ ev.cand.date <= now /\ ev.cand.date + 365 > now)
            => ~HasWarning(ev.res, "more than one year ago")

\* C23 witness: a run of 5 km in 40 minutes dated 366 days before the day of
\* validation, accepted with the warning
C23_Witness ==
  /\ ev.op = "validate"
  /\ ev.cand = [type |-> "run", dist |-> 5000, dur |-> 2400, date |-> 0]
  /\ now = 366
  /\ ev.res.valid
  /\ HasWarning(ev.res, "more than one year ago")

\* calories as the claim states them: round(70 km) for a run, round(35 km) for a
\* walk, round(420 min / 60) for a workout, round(350 min / 60) otherwise
ClaimedCalories(c) ==
  CASE c.type = "run" -> Round(70 * c.dist, 1000)
    [] c.type = "walk" -> Round(35 * c.dist, 1000)
    [] c.type = "workout" -> Round(420 * c.dur, 60 * 60)
    [] OTHER -> Round(350 * c.dur, 60 * 60)

Permuted(list, f) == [i \in 1 .. Len(list) |-> list[f[i]]]

RowSet(rows) == {rows[i] : i \in 1 .. Len(rows)}

\* the profile an import writes when it stores the rows after the first n
ProfileAfter(p, rows, n, yesterday) ==
  IF Len(rows) = n \/ ~p.exists THEN p
  ELSE AdvanceProfileImport(p, SubSeq(rows, n + 1, Len(rows)), yesterday)

\* C25: the outcome of an import does not depend on the order of arrival: for
\* every permutation of the fetched list, handled from the same table and the
\* same profile on the same day, the stored activities, the points, the streak
\* and the last activity date are those of the import that took place (stated
\* here for a user with a profile and imports in which no storage call fails).
C25_ImportOrderIndependent ==
  (ev.op \in {"importDone", "advanceImport"} /\ faults = 0 /\ ev.prof0.exists)
    => \A f \in Permutations(1 .. Len(ev.list)) :
         LET other == importLoop(ev.rows, Permuted(ev.list, f))
             prof == ProfileAfter(ev.prof0, other, Len(ev.rows), now - 1)
         IN /\ RowSet(other) = RowSet(dbActivities)
            /\ prof.points = profile.points
            /\ prof.streak = profile.streak
            /\ prof.last = profile.last

\* C26: every activity the import stores has one of the types run, walk and
\* workout: Run and TrailRun are stored as run, Walk and Hike as walk, every
\* other Strava type, Ride and EBikeRide among them, as workout.
C26_ImportedTypes ==
  /\ \A i \in 1 .. Len(dbActivities) :
       dbActivities[i].sid # Null => dbActivities[i].type \in {"run", "walk", "workout"}
  /\ (ev.op = "item" /\ ev.stored)
       => LET stored == dbActivities[Len(dbActivities)].type
          IN /\ dbActivities[Len(dbActivities)].sid = ev.item.id
             /\ ev.item.type \in {"Run", "TrailRun"} => stored = "run"
             /\ ev.item.type \in {"Walk", "Hike"} => stored = "walk"
             /\ ev.item.type \notin {"Run", "TrailRun", "Walk", "Hike"} => stored = "workout"

\* C26 witness: an e-bike ride is stored as a workout
C26_Witness ==
  /\ ev.op = "item"
  /\ ev.stored
  /\ ev.item.type = "EBikeRide"
  /\ dbActivities[Len(dbActivities)].sid = ev.item.id
  /\ dbActivities[Len(dbActivities)].type = "workout"

\* the points of the stored activities, an activity stored more than once under
\* the same Strava id counted once
RECURSIVE PointsOnce(_)
PointsOnce(rows) ==
  IF rows = <<>> THEN 0
  ELSE LET n == Len(rows)
           front == SubSeq(rows, 1, n - 1)
           again == rows[n].sid # Null /\ \E i \in 1 .. n - 1 : rows[i].sid = rows[n].sid
       IN PointsOnce(front) + (IF again THEN 0 ELSE rows[n].pts)

\* C27: once concurrent requests have been answered, every storage call having
\* succeeded, no two rows of table activities carry the same Strava id, and the
\* profile holds the points of a Strava activity at most once.
C27_OneRowPerStravaId ==
  (AllIdle /\ faults = 0 /\ profile.exists)
    => /\ \A i, j \in 1 .. Len(dbActivities) :
            (i # j /\ dbActivities[i].sid # Null)
              => dbActivities[i].sid # dbActivities[j].sid
       /\ profile.points <= PointsOnce(dbActivities)

\* C28: the import-all fetch loop always ends, after at most 10 requests for a
\* page; it asks for no further page after one that is empty, shorter than 30
\* items or failed, so every page kept but the last is full; a failed request
\* leaves the pages fetched before it in place, and all of them are handed on
FetchSafe ==
  /\ h[1].requests <= maxPages
  /\ \A i \in 1 .. Len(h[1].pages) - 1 : h[1].pages[i] = perPage
  /\ (ev.op = "page" /\ (ev.failed \/ ev.len < perPage)) => ~ENABLED FetchPage(1)
  /\ (ev.op = "page" /\ ev.failed) => h[1].pages = ev.pages
  /\ ev.op = "fetched" =>
       /\ ev.requests <= maxPages
       /\ ev.total = IF ev.pages = <<>> THEN 0
                     ELSE perPage * (Len(ev.pages) - 1) + ev.pages[Len(ev.pages)]
C28_FetchLoopTerminates ==
  /\ []FetchSafe
  /\ (h[1].pc = "fetch") ~> (h[1].pc = "idle")
\* the third page fails after two full pages: the loop is left with 60 activities
C28_Witness ==
  /\ ev.op = "fetched" /\ ev.requests = 3 /\ ev.total = 2 * perPage
\* ten full pages: the loop is left although the last page was full
C28_WitnessLimit ==
  /\ ev.op = "fetched" /\ ev.requests = maxPages /\ ev.total = maxPages * perPage

\* C29: a state is accepted by at most one callback: once a callback has gone on
\* to the exchange with a state, no later callback with that state does, and a
\* later one that carries a code is answered "Invalid state parameter"; a callback
\* whose state was never issued does not reach the exchange or the token store
Accepted(c) == c.result \in {"exchange", "stored", "failed"}
FriendshipIffAccepted ==
  \A a, b \in UserIds :
    a < b => (<<a, b>> \in friendships <=>
                \E i \in 1 .. Len(friend_requests) :
                  /\ Between(friend_requests[i], a, b)
                  /\ friend_requests[i].status = "accepted")
C30_FriendsConsistent ==
  /\ AllIdle => FriendshipIffAccepted
  /\ \A i \in 1 .. Len(friend_requests) :
       /\ friend_requests[i].changes <= 1
       /\ friend_requests[i].status = "pending" <=> friend_requests[i].changes = 0
       /\ friend_requests[i].sender # friend_requests[i].receiver

====
